---- MODULE Spec2Model ----
(***************************************************************************)
(* A model of the burst trie of src/trie.c: a multiset of uint16_t values  *)
(* kept in 64-byte nodes that are, by depth and by the content of their    *)
(* first 16-bit word, a sorted data node, a travel node of 8 tagged links  *)
(* or a count node of 8 uint64_t buckets.                                  *)
(*                                                                         *)
(* A node is modelled as the 32 16-bit words of its 64 bytes (little       *)
(* endian), so that the union of src/trie.h is a reinterpretation of the   *)
(* same words and trie__determine_node_type reads what the code reads.     *)
(* C index k of an array is index k+1 of the TLA+ tuple.                   *)
(***************************************************************************)
EXTENDS Integers, Sequences, FiniteSets

\* ------------------------------------------------------------ constants
CACHE_LINE_SIZE == 64
MASK_N_BITS == 3
TRIE_MAX_DEPTH == 5
USHRT_MAX == 65535
\* NELEMS(DataNode_t.data), NELEMS(TravelNode_t.link), NELEMS(CountNode_t.count)
DATA_NELEMS == 32
LINK_NELEMS == 8
COUNT_NELEMS == 8
\* bytes of a uint16_t, and 16-bit words of a uint64_t or of a pointer
WORDS_PER_U64 == 4
WORD_MOD == USHRT_MAX + 1

shift_amount == <<13, 10, 7, 4, 1, 0>>
\* 0b1110000000000000, 0b0001110000000000, 0b0000001110000000,
\* 0b0000000001110000, 0b0000000000001110, 0b0000000000000001
mask_array == <<57344, 7168, 896, 112, 14, 1>>

\* ------------------------------------------------------------ state
VARIABLES
    heap,             \* the blocks allocated so far: heap[1] is the root node's block
    base_node,        \* struct sTrie: the address of the root node
    number_of_zeros,  \* struct sTrie: the count of zeros
    triep,            \* the caller's struct sTrie*: HANDLE_ADDR, NULL after trie_free
    fault,            \* "none", or the assertion that ended the process
    inserted,         \* how often each value was passed to trie_insert_value
    bursts,           \* the bursts of the latest trie_insert_value
    out,              \* what the latest trie_print_values wrote, <<>> after an insert
    nprints,          \* the calls of trie_print_values since the latest insert
    freed,            \* the addresses trie_free handed to free(), in order
    probe,            \* SpecAddr: a value and its six indices
    other,            \* SpecPair: a second trie, its heap, count of zeros and ghosts
    memory,           \* the blocks aligned_alloc gives before it returns NULL
    call,             \* SpecSteps: the trie_insert_value under way, loop by loop
    universe          \* the values this run inserts

\* ------------------------------------------------------------ bounds
\* SpecAlloc: the most blocks aligned_alloc gives
MaxMemory == 6
\* the most calls of trie_insert_value in a run of Spec
MaxInserts == 33
\* the most calls of trie_insert_value(0) in a run of Spec
MaxZeros == 2
\* the most calls of trie_print_values between two inserts
MaxPrints == 2
\* SpecPair: how far apart the values of the two tries are at most
MaxSkew == 2
\* the most calls of trie_insert_value(0) in a run of SpecCeil
MaxZeroRun == 65540

\* A run of Spec inserts the values of one of these sets: 1 and 65535 part at
\* depth 0, 65423 and 65535 at depth 3, 2 and 5 at depth 4, and 65534 and 65535
\* are the two buckets of one count node.
Universes == {{0, 1, 65535}, {65534, 65535}, {65423, 65535}, {2, 5}}
\* A run of SpecAlloc inserts the values of one of these sets
AllocUniverses == {{1, 65535}, {2, 5}}
\* A run of SpecSteps inserts the values of one of these sets
StepUniverses == {{0, 1, 65535}, {2, 5}}
\* A run of SpecPair inserts the values of one of these sets
PairUniverses == {{1, 65535}, {2, 5}}
\* A run of SpecCeil inserts the one value of one of these sets
CeilUniverses == {{65535}, {0}}

\* ------------------------------------------------------------ bit operations
\* bits of a uint16_t
WORD_BITS == 16

\* a & b on the low n bits of a and b, n a power of 2: bit by bit, the low and
\* the high half of the bits apart
RECURSIVE BitAndN(_, _, _)
BitAndN(a, b, n) ==
    IF a = 0 \/ b = 0 THEN 0
    ELSE IF n = 1 THEN (a % 2) * (b % 2)
    ELSE LET h == n \div 2
         IN  BitAndN(a % (2 ^ h), b % (2 ^ h), h)
               + (2 ^ h) * BitAndN((a \div (2 ^ h)) % (2 ^ h), (b \div (2 ^ h)) % (2 ^ h), h)

\* a & b of two uint16_t
BitAnd(a, b) == BitAndN(a, b, WORD_BITS)

\* a >> n
ShiftRight(a, n) == a \div (2 ^ n)

\* Evaluates x, then F of it: the steps of a loop or of a sequence of calls
\* taken one after the other, each on the result of the one before.
Then(x, F(_)) == CHOOSE r \in {F(y) : y \in {x}} : TRUE

GEN_SHIFT(depth) == shift_amount[depth + 1]
GEN_MASK(depth) == mask_array[depth + 1]
\* the index without the mask: __val >> GEN_SHIFT(__depth)
IDX_FROM_VALUE_Unmasked(val, depth) == ShiftRight(val, GEN_SHIFT(depth))
IDX_FROM_VALUE(val, depth) == ShiftRight(BitAnd(val, GEN_MASK(depth)), GEN_SHIFT(depth))

\* A loop that steps an index down from the top of S while its condition holds
\* stops at the highest index of S, the set of indices where the condition
\* fails; none is the result when it fails nowhere.
HighestOr(none, S) ==
    LET Top(T) == IF T = {} THEN none ELSE CHOOSE k \in T : \A j \in T : j <= k
    IN  Then(S, Top)

\* x | 0x1 and x & ~0x1 on an address
TAG_PTR(ptr) == IF ptr % 2 = 0 THEN ptr + 1 ELSE ptr
UNTAG_PTR(ptr) == ptr - (ptr % 2)

\* ------------------------------------------------------------ memory
NULL == 0
NODE_BYTES == CACHE_LINE_SIZE
SLAB_BYTES == NODE_BYTES * LINK_NELEMS

\* bzero: a node of 32 zero words
ZeroNode == [k \in 1..DATA_NELEMS |-> 0]

\* The allocator: the b-th block handed out (the root node is the first, then one
\* slab of 8 nodes per burst) lies at b * SLAB_BYTES, which is 64-byte aligned
\* as aligned_alloc guarantees; nothing is reused while the trie lives.
BlockAddr(b) == b * SLAB_BYTES
BlockOf(ptr) == ptr \div SLAB_BYTES
IndexOf(ptr) == (ptr % SLAB_BYTES) \div NODE_BYTES
NodeAt(h, ptr) == h[BlockOf(ptr)][IndexOf(ptr) + 1]
\* a store that lands in the root node whatever the pointer
StoreNode_Root(h, ptr, node) == [h EXCEPT ![1][1] = node]
StoreNode(h, ptr, node) == [h EXCEPT ![BlockOf(ptr)][IndexOf(ptr) + 1] = node]

\* a uint64_t (a bucket, or a link) at C index i of a node, from its 4 words
ReadU64(node, i) ==
    node[WORDS_PER_U64 * i + 1]
      + WORD_MOD * (node[WORDS_PER_U64 * i + 2]
      + WORD_MOD * (node[WORDS_PER_U64 * i + 3]
      + WORD_MOD * node[WORDS_PER_U64 * i + 4]))
WriteU64(node, i, x) ==
    [k \in 1..DATA_NELEMS |->
        IF k = WORDS_PER_U64 * i + 1 THEN x % WORD_MOD
        ELSE IF k = WORDS_PER_U64 * i + 2 THEN (x \div WORD_MOD) % WORD_MOD
        ELSE IF k = WORDS_PER_U64 * i + 3 THEN ((x \div WORD_MOD) \div WORD_MOD) % WORD_MOD
        ELSE IF k = WORDS_PER_U64 * i + 4
             THEN (((x \div WORD_MOD) \div WORD_MOD) \div WORD_MOD) % WORD_MOD
        ELSE node[k]]

\* ------------------------------------------------------------ node helpers
trie__determine_node_type(h, nodep, current_depth) ==
    IF current_depth = TRIE_MAX_DEPTH THEN "NODE_TYPE_COUNT"
    ELSE IF NodeAt(h, nodep)[1] = 0 THEN "NODE_TYPE_DATA" ELSE "NODE_TYPE_TRAVEL"

\* a test that never finds the node full
trie__data_node_is_full_Never(node) == FALSE

trie__data_node_is_full(node) == IF node[1] = 0 THEN FALSE ELSE TRUE

\* the bucket taken by the index of the depth above, of 3 bits
trie__get_count_node_bucket_Wide(value) == IDX_FROM_VALUE(value, TRIE_MAX_DEPTH - 1)

\* the C index of the bucket of value in a count node
trie__get_count_node_bucket(value) == IDX_FROM_VALUE(value, TRIE_MAX_DEPTH)

\* the link taken by the index of the depth below
trie__follow_travel_node_Below(h, nodep, depth, value) ==
    UNTAG_PTR(ReadU64(NodeAt(h, nodep), IDX_FROM_VALUE(value, depth + 1)))

trie__follow_travel_node(h, nodep, depth, value) ==
    UNTAG_PTR(ReadU64(NodeAt(h, nodep), IDX_FROM_VALUE(value, depth)))

\* ------------------------------------------------------------ burst
\* line 132-134: the scan for the slot of a child that takes elem, from data[31]
\* down; -1 when the scan would step below data[0] (a read outside the node).
\* the scan with < for <=: it stops at a slot that holds elem already
BurstScan_Strict(child, p, elem) ==
    HighestOr(-1, {k \in 0..p : ~(child[k + 1] # 0 /\ child[k + 1] < elem)})

BurstScan(child, p, elem) ==
    HighestOr(-1, {k \in 0..p : ~(child[k + 1] # 0 /\ child[k + 1] <= elem)})

\* A loop over the C indices hi, hi-1, ..., lo of a node's data, in this order:
\* Step(st, k) is one pass of the loop body. The range is halved instead of
\* stepped through one by one; the passes and their order are the same.
RECURSIVE DownLoop(_, _, _, _)
DownLoop(Step(_, _), st, hi, lo) ==
    IF hi < lo THEN st
    ELSE IF hi = lo THEN Step(st, hi)
    ELSE LET mid == (hi + lo) \div 2
             Rest(first) == DownLoop(Step, first, mid, lo)
         IN  Then(DownLoop(Step, st, hi, mid + 1), Rest)

\* the count step with = 1 for ++: the bucket set, not incremented
BurstCountStep_Set(kids, elem, current_depth) ==
    LET Count(cb) == [kids EXCEPT ![cb[1] + 1] = WriteU64(@, cb[2], 1)]
    IN  Then(<<IDX_FROM_VALUE(elem, current_depth), trie__get_count_node_bucket(elem)>>, Count)

\* lines 125: one element of src counted in its bucket of the new count nodes
BurstCountStep(kids, elem, current_depth) ==
    LET Count(cb) == [kids EXCEPT ![cb[1] + 1] = WriteU64(@, cb[2], ReadU64(@, cb[2]) + 1)]
    IN  Then(<<IDX_FROM_VALUE(elem, current_depth), trie__get_count_node_bucket(elem)>>, Count)

\* lines 123-127: the 32 elements of src, from data[31] down to data[0], counted
\* in the buckets of the new count nodes
BurstCountLoop(kids, src, current_depth) ==
    LET Step(st, k) == BurstCountStep(st, src[k + 1], current_depth)
    IN  DownLoop(Step, kids, DATA_NELEMS - 1, 0)

\* a test that never finds the child full
LandsInSlot0_Never(p) == FALSE

\* line 136: the element was put in data[0] of its child
LandsInSlot0(p) == p = 0

\* lines 131-142: one element of src placed in its new data node;
\* st = [kids, node_to_burst (a child index, -1 for NULL), fault, writes], writes
\* the list of the stores of line 135 so far: the child, the slot, what the slot
\* held before the store and the element stored
BurstDataStep(st, elem, current_depth) ==
    LET Route(c) ==
            LET Put(p) ==
                    IF p = -1 THEN [st EXCEPT !.fault = "out_of_bounds"]
                    ELSE [kids |-> [st.kids EXCEPT ![c + 1][p + 1] = elem],
                          node_to_burst |-> IF LandsInSlot0(p) THEN c ELSE st.node_to_burst,
                          fault |-> "none",
                          writes |-> Append(st.writes,
                                            [child |-> c, slot |-> p,
                                             old |-> st.kids[c + 1][p + 1], elem |-> elem])]
            IN  Then(BurstScan(st.kids[c + 1], DATA_NELEMS - 1, elem), Put)
    IN  IF st.fault # "none" THEN st
        ELSE Then(IDX_FROM_VALUE(elem, current_depth), Route)

\* the loop with current_elemp going up from data[0] to data[31]
BurstDataLoop_Upward(kids, src, current_depth) ==
    LET Step(st, k) == BurstDataStep(st, src[DATA_NELEMS - k], current_depth)
    IN  DownLoop(Step, [kids |-> kids, node_to_burst |-> -1, fault |-> "none",
                        writes |-> <<>>],
                 DATA_NELEMS - 1, 0)

\* lines 129-144: the 32 elements of src, from data[31] down to data[0], placed
\* in the new data nodes
BurstDataLoop(kids, src, current_depth) ==
    LET Step(st, k) == BurstDataStep(st, src[k + 1], current_depth)
    IN  DownLoop(Step, [kids |-> kids, node_to_burst |-> -1, fault |-> "none",
                        writes |-> <<>>],
                 DATA_NELEMS - 1, 0)

\* the 8 links all set to the first node of the slab
TravelNodeOf_FirstChild(slab) ==
    [k \in 1..DATA_NELEMS |->
        WriteU64(ZeroNode, 0, TAG_PTR(BlockAddr(slab)))[((k - 1) % WORDS_PER_U64) + 1]]

\* lines 146-148: the node rewritten as 8 tagged links to the nodes of the slab
TravelNodeOf(slab) ==
    [k \in 1..DATA_NELEMS |->
        WriteU64(ZeroNode, 0,
                 TAG_PTR(BlockAddr(slab) + ((k - 1) \div WORDS_PER_U64) * NODE_BYTES))
            [((k - 1) % WORDS_PER_U64) + 1]]

\* aligned_alloc with h allocated: the index of the new block in the heap, or
\* NULL when the memory is used up
aligned_alloc(h) == IF Len(h) < memory THEN Len(h) + 1 ELSE NULL

\* the allocation taken as done whatever aligned_alloc returned
AllocFailed_Unchecked(block) == FALSE

\* lines 86 and 116: the test of what aligned_alloc returned
AllocFailed(block) == block = NULL

\* a test that never finds the children to be count nodes
CountChildren_Never(current_depth) == FALSE

\* line 121: the children of a node at this depth are count nodes
CountChildren(current_depth) == current_depth = TRIE_MAX_DEPTH - 1

\* lines 113-148, one burst without the burst it may cascade into:
\* [heap, fault, node_to_burst, bursts], bursts the list of this one burst: the
\* node, its depth, its 32 values before the burst, the slab allocated for it
\* and its stores into new data nodes; a burst whose slab is not allocated fails
\* its assertion and is not in the list.
BurstOnce(h, nodep, current_depth) ==
    LET src == NodeAt(h, nodep)
        slab == aligned_alloc(h)
        fresh == [i \in 1..LINK_NELEMS |-> ZeroNode]
        Link(st) ==
            LET rec == [nodep |-> nodep, depth |-> current_depth, before |-> src,
                        slab |-> slab, writes |-> st.writes]
            IN
            IF st.fault # "none"
            THEN [heap |-> h, fault |-> st.fault, node_to_burst |-> NULL, bursts |-> <<rec>>]
            ELSE [heap |-> StoreNode(Append(h, st.kids), nodep, TravelNodeOf(slab)),
                  fault |-> "none",
                  node_to_burst |-> IF st.node_to_burst = -1 THEN NULL
                                    ELSE BlockAddr(slab) + st.node_to_burst * NODE_BYTES,
                  bursts |-> <<rec>>]
    IN  IF AllocFailed(slab)
        THEN [heap |-> h, fault |-> "assert_travel_node_allocation",
              node_to_burst |-> NULL, bursts |-> <<>>]
        ELSE Then(IF CountChildren(current_depth)
                  THEN [kids |-> BurstCountLoop(fresh, src, current_depth),
                        node_to_burst |-> -1, fault |-> "none", writes |-> <<>>]
                  ELSE BurstDataLoop(fresh, src, current_depth),
                  Link)

\* trie__burst_data_node on the heap h: [heap, fault, bursts], where bursts
\* lists this burst and the bursts it cascades into.
RECURSIVE trie__burst_data_node(_, _, _)
trie__burst_data_node(h, nodep, current_depth) ==
    LET b == BurstOnce(h, nodep, current_depth)
    IN  IF b.node_to_burst # NULL
        THEN LET r == trie__burst_data_node(b.heap, b.node_to_burst, current_depth + 1)
             IN  [heap |-> r.heap, fault |-> r.fault, bursts |-> b.bursts \o r.bursts]
        ELSE [heap |-> b.heap, fault |-> b.fault, bursts |-> b.bursts]

\* ------------------------------------------------------------ insert
\* lines 249-253: the descent through travel nodes: <<node, depth>>
RECURSIVE Descend(_, _, _, _)
Descend(h, current_node, current_depth, value) ==
    IF trie__determine_node_type(h, current_node, current_depth) = "NODE_TYPE_TRAVEL"
    THEN Descend(h, trie__follow_travel_node(h, current_node, current_depth, value),
                 current_depth + 1, value)
    ELSE <<current_node, current_depth>>

\* the scan with > for <: it passes the slots that hold more than the value
InsertScan_Greater(node, k, value) ==
    HighestOr(-1, {j \in 0..k : ~(node[j + 1] # 0 /\ node[j + 1] > value)})

\* the scan without *current_elemp != 0: it passes the empty slots
InsertScan_NoEmptyStop(node, k, value) ==
    HighestOr(-1, {j \in 0..k : ~(node[j + 1] < value)})

\* lines 262-268: the scan from data[31] down for the slot of value; -1 when the
\* assertion in the loop fails
InsertScan(node, k, value) ==
    HighestOr(-1, {j \in 0..k : ~(node[j + 1] # 0 /\ node[j + 1] < value)})

\* PlaceValue without the memmove: the value overwrites the slot
PlaceValue_NoShift(node, k, value) == [node EXCEPT ![k + 1] = value]

\* lines 269-276: value written at slot k, after data[1..k] moved to data[0..k-1]
\* when the slot is taken
PlaceValue(node, k, value) ==
    IF node[k + 1] = 0
    THEN [node EXCEPT ![k + 1] = value]
    ELSE [j \in 1..DATA_NELEMS |->
             IF j - 1 < k THEN node[j + 1]
             ELSE IF j - 1 = k THEN value
             ELSE node[j]]

\* the increment with += 2 for ++
IncrementBucket_ByTwo(count) == count + 2

\* lines 254-258: what the bucket holds after the increment
IncrementBucket(count) == count + 1

\* lines 255: the assertion on the bucket's count
BucketBelowCeiling(count) == count # USHRT_MAX

\* trie_insert_value on t = [heap, base_node, number_of_zeros]:
\* [heap, number_of_zeros, fault, bursts]; bursts lists the bursts of this call,
\* each with the value inserted
trie_insert_value(t, value) ==
    IF value = 0
    THEN [heap |-> t.heap, number_of_zeros |-> t.number_of_zeros + 1,
          fault |-> "none", bursts |-> <<>>]
    ELSE
    LET d == Descend(t.heap, t.base_node, 0, value)
        current_node == d[1]
        current_depth == d[2]
        node == NodeAt(t.heap, current_node)
        same == [heap |-> t.heap, number_of_zeros |-> t.number_of_zeros,
                 fault |-> "none", bursts |-> <<>>]
    IN  IF trie__determine_node_type(t.heap, current_node, current_depth) = "NODE_TYPE_COUNT"
        THEN LET b == trie__get_count_node_bucket(value)
             IN  IF ~BucketBelowCeiling(ReadU64(node, b))
                 THEN [same EXCEPT !.fault = "assert_bucket_ceiling"]
                 ELSE [same EXCEPT !.heap = StoreNode(t.heap, current_node,
                                      WriteU64(node, b, IncrementBucket(ReadU64(node, b))))]
        ELSE IF trie__determine_node_type(t.heap, current_node, current_depth)
                    # "NODE_TYPE_DATA"
        THEN [same EXCEPT !.fault = "assert_node_type_data"]
        ELSE LET k == InsertScan(node, DATA_NELEMS - 1, value)
             IN  IF k = -1
                 THEN [same EXCEPT !.fault = "assert_scan_at_slot_0"]
                 ELSE LET placed == PlaceValue(node, k, value)
                          h1 == StoreNode(t.heap, current_node, placed)
                      IN  IF trie__data_node_is_full(placed)
                          THEN LET r == trie__burst_data_node(h1, current_node, current_depth)
                               IN  [same EXCEPT !.heap = r.heap, !.fault = r.fault,
                                                !.bursts = [j \in DOMAIN r.bursts |->
                                                    [burst |-> r.bursts[j], value |-> value]]]
                          ELSE [same EXCEPT !.heap = h1]

\* ------------------------------------------------------------ print
\* The print functions take the heap and give it back with what they wrote to
\* fp: [out, heap].

\* a print that counts the bucket itself down to 0, as oracle_print does
trie__print_count_node_Drain(h, nodep, value) ==
    LET b == trie__get_count_node_bucket(value)
    IN  [out |-> [i \in 1..ReadU64(NodeAt(h, nodep), b) |-> value],
         heap |-> StoreNode(h, nodep, WriteU64(NodeAt(h, nodep), b, 0))]

\* lines 178-182
trie__print_count_node(h, nodep, value) ==
    [out |-> [i \in 1..ReadU64(NodeAt(h, nodep), trie__get_count_node_bucket(value))
                  |-> value],
     heap |-> h]

\* lines 184-188: the elements from data[k] down to the first 0 or past data[0]
PrintDataLoop(node, k) ==
    LET stop == HighestOr(-1, {j \in 0..k : node[j + 1] = 0})
    IN  [i \in 1..(k - stop) |-> node[k + 2 - i]]

\* lines 183-189
trie__print_data_node(h, nodep) ==
    [out |-> PrintDataLoop(NodeAt(h, nodep), DATA_NELEMS - 1), heap |-> h]

\* the prefix step without the shift by depth
PrefixStep_NoDepth(i, depth) == (8192 * i) % WORD_MOD

\* lines 203-210: ((uint16_t)(0x2000 * i) >> (depth * MASK_N_BITS))
PrefixStep(i, depth) == ShiftRight((8192 * i) % WORD_MOD, depth * MASK_N_BITS)

\* the node link[i] of a travel node points to
LinkTarget(h, nodep, i) == UNTAG_PTR(ReadU64(NodeAt(h, nodep), i))

\* lines 191-215; the value arguments are uint16_t
RECURSIVE trie__print_subtrie(_, _, _, _)
trie__print_subtrie(h, nodep, value, depth) ==
    LET type == trie__determine_node_type(h, nodep, depth)
        Sub(hh, i) == trie__print_subtrie(hh, LinkTarget(hh, nodep, i),
                                          (value + PrefixStep(i, depth)) % WORD_MOD,
                                          depth + 1)
    IN  IF type = "NODE_TYPE_COUNT"
        THEN LET r1 == trie__print_count_node(h, nodep, value)
                 r2 == trie__print_count_node(r1.heap, nodep, (value + 1) % WORD_MOD)
             IN  [out |-> r1.out \o r2.out, heap |-> r2.heap]
        ELSE IF type = "NODE_TYPE_DATA"
        THEN trie__print_data_node(h, nodep)
        ELSE LET r0 == Sub(h, 0)
                 r1 == Sub(r0.heap, 1)
                 r2 == Sub(r1.heap, 2)
                 r3 == Sub(r2.heap, 3)
                 r4 == Sub(r3.heap, 4)
                 r5 == Sub(r4.heap, 5)
                 r6 == Sub(r5.heap, 6)
                 r7 == Sub(r6.heap, 7)
             IN  [out |-> r0.out \o r1.out \o r2.out \o r3.out
                            \o r4.out \o r5.out \o r6.out \o r7.out,
                  heap |-> r7.heap]

\* a print that writes the zeros after the values of the tree
trie_print_values_ZerosLast(t) ==
    LET r == trie__print_subtrie(t.heap, t.base_node, 0, 0)
    IN  [out |-> r.out \o [i \in 1..t.number_of_zeros |-> 0],
         heap |-> r.heap,
         number_of_zeros |-> t.number_of_zeros]

\* lines 234-239, on t = [heap, base_node, number_of_zeros]:
\* [out, heap, number_of_zeros]
trie_print_values(t) ==
    LET r == trie__print_subtrie(t.heap, t.base_node, 0, 0)
    IN  [out |-> [i \in 1..t.number_of_zeros |-> 0] \o r.out,
         heap |-> r.heap,
         number_of_zeros |-> t.number_of_zeros]

\* ------------------------------------------------------------ free
\* What trie_free does to memory, in order: a read of a node ("read", its
\* address) or a call of free() ("free", the address passed).
ReadEvent(ptr) == [op |-> "read", ptr |-> ptr]
FreeEvent(ptr) == [op |-> "free", ptr |-> ptr]

\* the address of the struct sTrie, which calloc gives: below every node block
HANDLE_ADDR == 8

\* lines 157-176: trie__determine_node_type reads the node unless depth is
\* TRIE_MAX_DEPTH; a travel node is read again for each link
RECURSIVE trie__free_subtrie(_, _, _)
\* a free that frees the slab of a travel node before it goes down its links
trie__free_subtrie_FreeFirst(h, nodep, depth) ==
    LET Sub(i) == <<ReadEvent(nodep)>>
                      \o trie__free_subtrie(h, LinkTarget(h, nodep, i), depth + 1)
    IN  IF depth = TRIE_MAX_DEPTH THEN <<>>
        ELSE IF trie__determine_node_type(h, nodep, depth) = "NODE_TYPE_TRAVEL"
        THEN <<ReadEvent(nodep), FreeEvent(LinkTarget(h, nodep, 0))>>
                 \o Sub(7) \o Sub(6) \o Sub(5) \o Sub(4) \o Sub(3) \o Sub(2) \o Sub(1) \o Sub(0)
        ELSE <<ReadEvent(nodep)>>

trie__free_subtrie(h, nodep, depth) ==
    LET Sub(i) == <<ReadEvent(nodep)>>
                      \o trie__free_subtrie(h, LinkTarget(h, nodep, i), depth + 1)
    IN  IF depth = TRIE_MAX_DEPTH THEN <<>>
        ELSE IF trie__determine_node_type(h, nodep, depth) = "NODE_TYPE_TRAVEL"
        THEN <<ReadEvent(nodep)>>
                 \o Sub(7) \o Sub(6) \o Sub(5) \o Sub(4) \o Sub(3) \o Sub(2) \o Sub(1) \o Sub(0)
                 \o <<ReadEvent(nodep), FreeEvent(LinkTarget(h, nodep, 0))>>
        ELSE <<ReadEvent(nodep)>>

\* lines 227-232, on t = [heap, base_node, number_of_zeros]; the handle is read
\* for base_node before each of the first two steps
FreeEvents(t) ==
    <<ReadEvent(HANDLE_ADDR)>>
        \o trie__free_subtrie(t.heap, t.base_node, 0)
        \o <<ReadEvent(HANDLE_ADDR), FreeEvent(t.base_node), FreeEvent(HANDLE_ADDR)>>

\* the block an address lies in, by its start
BlockStart(ptr) == IF ptr < BlockAddr(1) THEN HANDLE_ADDR ELSE BlockAddr(BlockOf(ptr))

\* what is undefined in a run of events: a read in a block freed before, or a
\* free() of what is not the start of a block that is still allocated
EventsFault(h, ev) ==
    IF \E i, j \in 1..Len(ev) :
           /\ i < j /\ ev[i].op = "free" /\ ev[j].op = "read"
           /\ BlockStart(ev[j].ptr) = BlockStart(ev[i].ptr)
    THEN "use_after_free"
    ELSE IF \E i \in 1..Len(ev) :
                /\ ev[i].op = "free"
                /\ \/ ev[i].ptr # BlockStart(ev[i].ptr)
                   \/ ev[i].ptr # HANDLE_ADDR /\ BlockOf(ev[i].ptr) \notin DOMAIN h
                   \/ \E j \in 1..(i - 1) : ev[j].op = "free" /\ ev[j].ptr = ev[i].ptr
    THEN "invalid_free"
    ELSE "none"

IsFreeEvent(e) == e.op = "free"
FreesOf(ev) ==
    LET fs == SelectSeq(ev, IsFreeEvent)
    IN  [i \in 1..Len(fs) |-> fs[i].ptr]

\* trie_free: [log, fault], log the addresses passed to free() in order
trie_free(t) ==
    LET ev == FreeEvents(t)
    IN  [log |-> FreesOf(ev), fault |-> EventsFault(t.heap, ev)]

\* ------------------------------------------------------------ state
vars == <<heap, base_node, number_of_zeros, triep, fault, inserted, bursts, out,
          nprints, freed, probe, other, memory, call, universe>>

Trie == [heap |-> heap, base_node |-> base_node, number_of_zeros |-> number_of_zeros]

AllValues == UNION Universes \cup UNION CeilUniverses

RECURSIVE SumOver(_, _)
SumOver(f, S) ==
    IF S = {} THEN 0
    ELSE LET x == CHOOSE y \in S : TRUE IN f[x] + SumOver(f, S \ {x})

TotalInserted == SumOver(inserted, universe)
NonZeroInserted == SumOver(inserted, universe \ {0})

NoProbe == [v |-> 0, idx |-> <<>>]

\* no trie_insert_value under way
Idle == [pc |-> "idle", value |-> 0, node |-> NULL, depth |-> 0, links |-> 0, nbursts |-> 0,
         start |-> <<>>]

\* memory for every block a run asks for
EnoughMemory == MaxInserts

\* trie_init (lines 218-225): the handle, and a zeroed root node
InitTrie ==
    /\ heap = <<(<<ZeroNode>>)>>
    /\ base_node = BlockAddr(1)
    /\ number_of_zeros = 0
    /\ triep = HANDLE_ADDR
    /\ fault = "none"
    /\ inserted = [v \in AllValues |-> 0]
    /\ bursts = <<>>
    /\ out = <<>>
    /\ nprints = 0
    /\ freed = <<>>

\* the second trie after trie_init
NoOther ==
    [heap |-> <<(<<ZeroNode>>)>>, number_of_zeros |-> 0, fault |-> "none",
     inserted |-> [v \in AllValues |-> 0], out |-> <<>>, diverged |-> FALSE]

Init ==
    /\ InitTrie
    /\ universe \in Universes
    /\ probe = NoProbe
    /\ other = NoOther
    /\ memory = EnoughMemory
    /\ call = Idle

Live == triep # NULL /\ fault = "none"

\* trie_insert_value(triep, v)
DoInsert(v) ==
    /\ Live
    /\ \E r \in {trie_insert_value(Trie, v)} :
           /\ heap' = r.heap
           /\ number_of_zeros' = r.number_of_zeros
           /\ fault' = r.fault
           /\ bursts' = r.bursts
    /\ inserted' = [inserted EXCEPT ![v] = @ + 1]
    /\ out' = <<>>
    /\ nprints' = 0
    /\ UNCHANGED <<base_node, triep, freed, probe, universe, memory, call>>

Insert(v) ==
    /\ v # 0 => NonZeroInserted < MaxInserts
    /\ v = 0 => inserted[0] < MaxZeros
    /\ DoInsert(v)
    /\ UNCHANGED other

\* trie_print_values(triep, fp), fp a fresh stream
PrintValues ==
    /\ Live
    /\ nprints < MaxPrints
    /\ \E r \in {trie_print_values(Trie)} :
           /\ out' = r.out
           /\ heap' = r.heap
           /\ number_of_zeros' = r.number_of_zeros
    /\ nprints' = nprints + 1
    /\ UNCHANGED <<base_node, triep, fault, inserted, bursts, freed, probe, other,
                   universe, memory, call>>

\* trie_free(&triep)
Free ==
    /\ Live
    /\ \E m \in {trie_free(Trie)} :
           /\ freed' = m.log
           /\ fault' = m.fault
    /\ triep' = NULL
    /\ UNCHANGED <<heap, base_node, number_of_zeros, inserted, bursts, out, nprints, probe,
                   other, universe, memory, call>>

Next ==
    \/ \E v \in universe : Insert(v)
    \/ PrintValues
    \/ Free

Spec == Init /\ [][Next]_vars

\* One value inserted until the process ends, or zero inserted MaxZeroRun times;
\* the trie is printed while it is small.
InsertCeil(v) ==
    /\ v = 0 => inserted[0] < MaxZeroRun
    /\ DoInsert(v)
    /\ UNCHANGED other

PrintCeil ==
    /\ TotalInserted <= MaxInserts
    /\ PrintValues

InitCeil ==
    /\ InitTrie
    /\ universe \in CeilUniverses
    /\ probe = NoProbe
    /\ other = NoOther
    /\ memory = EnoughMemory
    /\ call = Idle

NextCeil ==
    \/ \E v \in universe : InsertCeil(v)
    \/ PrintCeil

SpecCeil == InitCeil /\ [][NextCeil]_vars

\* trie__alloc_node (lines 84-90) on the heap h: [heap, ptr, fault]
trie__alloc_node(h) ==
    LET block == aligned_alloc(h)
    IN  IF AllocFailed(block)
        THEN [heap |-> h, ptr |-> NULL, fault |-> "assert_node_allocation"]
        ELSE [heap |-> Append(h, <<ZeroNode>>), ptr |-> BlockAddr(block), fault |-> "none"]

\* The memory is used up after 0..MaxMemory blocks: trie_init (lines 218-225)
\* with a trie__alloc_node that may fail; the process has no trie when it does.
InitAlloc ==
    /\ memory \in 0..MaxMemory
    /\ call = Idle
    /\ universe \in AllocUniverses
    /\ probe = NoProbe
    /\ other = NoOther
    /\ \E r \in {trie__alloc_node(<<>>)} :
           /\ heap = r.heap
           /\ base_node = r.ptr
           /\ fault = r.fault
           /\ triep = IF r.fault = "none" THEN HANDLE_ADDR ELSE NULL
    /\ number_of_zeros = 0
    /\ inserted = [v \in AllValues |-> 0]
    /\ bursts = <<>>
    /\ out = <<>>
    /\ nprints = 0
    /\ freed = <<>>

SpecAlloc == InitAlloc /\ [][Next]_vars

\* trie_insert_value taken loop by loop: the call, each pass of the descent
\* (lines 249-253), the write into the node the descent ends at (lines 254-276)
\* and each burst of the cascade (lines 277-280, 111-155) are steps of their own.
CallInsert(v) ==
    /\ Live
    /\ call.pc = "idle"
    /\ v # 0 => NonZeroInserted < MaxInserts
    /\ v = 0 => inserted[0] < MaxZeros
    /\ inserted' = [inserted EXCEPT ![v] = @ + 1]
    /\ bursts' = <<>>
    /\ out' = <<>>
    /\ nprints' = 0
    /\ IF v = 0
       THEN /\ number_of_zeros' = number_of_zeros + 1
            /\ call' = Idle
       ELSE /\ number_of_zeros' = number_of_zeros
            /\ call' = [pc |-> "descend", value |-> v, node |-> base_node, depth |-> 0,
                        links |-> 0, nbursts |-> 0, start |-> heap]
    /\ UNCHANGED <<heap, base_node, triep, fault, freed, probe, other, universe, memory>>

\* lines 249-253: one pass of the descent
FollowLink ==
    /\ Live
    /\ call.pc = "descend"
    /\ trie__determine_node_type(heap, call.node, call.depth) = "NODE_TYPE_TRAVEL"
    /\ call' = [call EXCEPT
                   !.node = trie__follow_travel_node(heap, call.node, call.depth, call.value),
                   !.depth = @ + 1,
                   !.links = @ + 1]
    /\ UNCHANGED <<heap, base_node, number_of_zeros, triep, fault, inserted, bursts, out,
                   nprints, freed, probe, other, universe, memory>>

\* lines 254-276 on the node at nodep, of depth depth, that the descent ended
\* at: [heap, fault, full]
WriteValue(h, nodep, depth, value) ==
    LET node == NodeAt(h, nodep)
        b == trie__get_count_node_bucket(value)
        Store(placed) == [heap |-> StoreNode(h, nodep, placed), fault |-> "none",
                          full |-> trie__data_node_is_full(placed)]
        Put(k) == IF k = -1
                  THEN [heap |-> h, fault |-> "assert_scan_at_slot_0", full |-> FALSE]
                  ELSE Then(PlaceValue(node, k, value), Store)
    IN  IF trie__determine_node_type(h, nodep, depth) = "NODE_TYPE_COUNT"
        THEN IF ~BucketBelowCeiling(ReadU64(node, b))
             THEN [heap |-> h, fault |-> "assert_bucket_ceiling", full |-> FALSE]
             ELSE [heap |-> StoreNode(h, nodep,
                                      WriteU64(node, b, IncrementBucket(ReadU64(node, b)))),
                   fault |-> "none", full |-> FALSE]
        ELSE IF trie__determine_node_type(h, nodep, depth) # "NODE_TYPE_DATA"
        THEN [heap |-> h, fault |-> "assert_node_type_data", full |-> FALSE]
        ELSE Then(InsertScan(node, DATA_NELEMS - 1, value), Put)

\* the end of the descent and the write
Place ==
    /\ Live
    /\ call.pc = "descend"
    /\ trie__determine_node_type(heap, call.node, call.depth) # "NODE_TYPE_TRAVEL"
    /\ \E r \in {WriteValue(heap, call.node, call.depth, call.value)} :
           /\ heap' = r.heap
           /\ fault' = r.fault
           /\ call' = [call EXCEPT !.pc = IF r.fault # "none" THEN "aborted"
                                          ELSE IF r.full THEN "burst" ELSE "idle"]
    /\ UNCHANGED <<base_node, number_of_zeros, triep, inserted, bursts, out, nprints, freed,
                   probe, other, universe, memory>>

\* one call of trie__burst_data_node, up to the call of itself or its return
BurstStep ==
    /\ Live
    /\ call.pc = "burst"
    /\ \E b \in {BurstOnce(heap, call.node, call.depth)} :
           /\ heap' = b.heap
           /\ fault' = b.fault
           /\ bursts' = bursts \o [j \in DOMAIN b.bursts |->
                                      [burst |-> b.bursts[j], value |-> call.value]]
           /\ call' = IF b.fault # "none" THEN [call EXCEPT !.pc = "aborted"]
                      ELSE IF b.node_to_burst # NULL
                      THEN [call EXCEPT !.node = b.node_to_burst,
                                        !.depth = @ + 1,
                                        !.nbursts = @ + 1]
                      ELSE [call EXCEPT !.pc = "idle", !.nbursts = @ + 1]
    /\ UNCHANGED <<base_node, number_of_zeros, triep, inserted, out, nprints, freed, probe,
                   other, universe, memory>>

InitSteps ==
    /\ InitTrie
    /\ universe \in StepUniverses
    /\ probe = NoProbe
    /\ other = NoOther
    /\ memory = EnoughMemory
    /\ call = Idle

NextSteps ==
    \/ \E v \in universe : CallInsert(v)
    \/ FollowLink
    \/ Place
    \/ BurstStep

\* a call under way goes on: nothing blocks or cancels it
SpecSteps ==
    /\ InitSteps
    /\ [][NextSteps]_vars
    /\ WF_vars(FollowLink)
    /\ WF_vars(Place)
    /\ WF_vars(BurstStep)

\* Two tries take the same values in two orders: the second trie is at most
\* MaxSkew inserts apart from the first, counted value by value.
Abs(x) == IF x < 0 THEN 0 - x ELSE x
Skew(ins1, ins2) == SumOver([v \in AllValues |-> Abs(ins1[v] - ins2[v])], universe)

OtherTrie ==
    [heap |-> other.heap, base_node |-> base_node, number_of_zeros |-> other.number_of_zeros]

\* trie_insert_value(triep, v) on the first trie
InsertFirst(v) ==
    /\ other.fault = "none"
    /\ NonZeroInserted < MaxInserts
    /\ Skew([inserted EXCEPT ![v] = @ + 1], other.inserted) <= MaxSkew
    /\ DoInsert(v)
    /\ other' = [other EXCEPT !.out = <<>>,
                              !.diverged = @ \/ Len(heap') # Len(other.heap)]

\* trie_insert_value(triep, v) on the second trie
InsertSecond(v) ==
    /\ Live
    /\ other.fault = "none"
    /\ SumOver(other.inserted, universe) < MaxInserts
    /\ Skew(inserted, [other.inserted EXCEPT ![v] = @ + 1]) <= MaxSkew
    /\ \E r \in {trie_insert_value(OtherTrie, v)} :
           other' = [heap |-> r.heap, number_of_zeros |-> r.number_of_zeros,
                     fault |-> r.fault,
                     inserted |-> [other.inserted EXCEPT ![v] = @ + 1],
                     out |-> <<>>,
                     diverged |-> other.diverged \/ Len(r.heap) # Len(heap)]
    /\ out' = <<>>
    /\ nprints' = 0
    /\ UNCHANGED <<heap, base_node, number_of_zeros, triep, fault, inserted, bursts, freed,
                   probe, universe, memory, call>>

\* trie_print_values on both tries, each to a fresh stream, when they hold the
\* same values
PrintBoth ==
    /\ Live
    /\ other.fault = "none"
    /\ nprints < 1
    /\ inserted = other.inserted
    /\ \E r \in {trie_print_values(Trie)} :
           /\ out' = r.out
           /\ heap' = r.heap
           /\ number_of_zeros' = r.number_of_zeros
    /\ \E r \in {trie_print_values(OtherTrie)} :
           other' = [other EXCEPT !.out = r.out, !.heap = r.heap,
                                  !.number_of_zeros = r.number_of_zeros]
    /\ nprints' = nprints + 1
    /\ UNCHANGED <<base_node, triep, fault, inserted, bursts, freed, probe, universe, memory, call>>

InitPair ==
    /\ InitTrie
    /\ universe \in PairUniverses
    /\ probe = NoProbe
    /\ other = NoOther
    /\ memory = EnoughMemory
    /\ call = Idle

NextPair ==
    \/ \E v \in universe : InsertFirst(v)
    \/ \E v \in universe : InsertSecond(v)
    \/ PrintBoth

SpecPair == InitPair /\ [][NextPair]_vars

\* The six indices of one 16-bit value.
Address ==
    /\ probe.idx = <<>>
    /\ probe' = [probe EXCEPT !.idx = [d \in 1..(TRIE_MAX_DEPTH + 1) |->
                                          IDX_FROM_VALUE(probe.v, d - 1)]]
    /\ UNCHANGED <<heap, base_node, number_of_zeros, triep, fault, inserted, bursts, out,
                   nprints, freed, other, universe, memory, call>>

InitAddr ==
    /\ InitTrie
    /\ universe = {}
    /\ other = NoOther
    /\ memory = EnoughMemory
    /\ call = Idle
    /\ probe \in {[v |-> v, idx |-> <<>>] : v \in 0..USHRT_MAX}

NextAddr == Address

SpecAddr == InitAddr /\ [][NextAddr]_vars

\* ------------------------------------------------------------ reference
\* src/trie.proptest.c, oracle_print: the array holds how often each value was
\* inserted (oracle_insert); every value from the lowest up, as often as that
RECURSIVE oracle_print(_, _)
oracle_print(array, S) ==
    IF S = {} THEN <<>>
    ELSE LET i == CHOOSE x \in S : \A y \in S : x <= y
         IN  [n \in 1..array[i] |-> i] \o oracle_print(array, S \ {i})

\* how often v occurs in the sequence s
Occurrences(s, v) == Cardinality({i \in 1..Len(s) : s[i] = v})

NonDecreasing(s) == \A i \in 1..(Len(s) - 1) : s[i] <= s[i + 1]

\* the slabs allocated so far; the blocks after the root node's
Slabs == 2..Len(heap)

Printed == nprints > 0

\* ------------------------------------------------------------ C1
\* C1: after any sequence of trie_insert_value calls on a fresh trie,
\* trie_print_values writes what the oracle's occurrence-count array of the same
\* sequence enumerates: the values in non-decreasing order, each as often as it
\* was inserted.
C1_OracleEquivalence ==
    Printed =>
        /\ out = oracle_print(inserted, universe)
        /\ NonDecreasing(out)
        /\ \A v \in AllValues : Occurrences(out, v) = inserted[v]

\* a print of more than 32 values, of two values at least, after a burst
C1_Witness ==
    /\ Printed
    /\ Len(out) > DATA_NELEMS
    /\ Slabs # {}
    /\ \E i, j \in 1..Len(out) : out[i] # out[j]

\* ------------------------------------------------------------ contents
\* the bits of value above those that depth and the depths below it index: what
\* every value of the node reached at depth by value's indices starts with
PathPrefix(value, depth) ==
    IF depth = 0 THEN 0
    ELSE (value \div (2 ^ GEN_SHIFT(depth - 1))) * (2 ^ GEN_SHIFT(depth - 1))

\* the values a subtree holds, in no particular order: the slots of a data node
\* that are not 0, and for a bucket of a count node its count times the value
\* its place stands for
RECURSIVE Stored(_, _, _, _)
Stored(h, nodep, prefix, depth) ==
    LET node == NodeAt(h, nodep)
        Sub(i) == Stored(h, LinkTarget(h, nodep, i),
                         prefix + i * (2 ^ GEN_SHIFT(depth)), depth + 1)
    IN  IF depth = TRIE_MAX_DEPTH
        THEN [n \in 1..ReadU64(node, 0) |-> prefix]
                 \o [n \in 1..ReadU64(node, 1) |-> prefix + 1]
        ELSE IF node[1] = 0
        THEN SelectSeq(node, LAMBDA w : w # 0)
        ELSE Sub(0) \o Sub(1) \o Sub(2) \o Sub(3) \o Sub(4) \o Sub(5) \o Sub(6) \o Sub(7)

SameBag(s1, s2) ==
    /\ Len(s1) = Len(s2)
    /\ \A i \in 1..Len(s1) : Occurrences(s1, s1[i]) = Occurrences(s2, s1[i])

\* the child i of the slab of a burst
SlabNode(slab, i) == BlockAddr(slab) + i * NODE_BYTES

\* ------------------------------------------------------------ C3
\* C3: after trie__burst_data_node on a full data node at depth d, the values in
\* the 8 new children (slots of data nodes, buckets of count nodes when d+1 is the
\* maximum depth, the children of a cascading burst included) are the 32 values
\* the node held, and each lies in the child that the depth-d index of the value
\* selects.
C3_BurstPreservesContents ==
    \A j \in 1..Len(bursts) :
        LET b == bursts[j].burst
            prefix == PathPrefix(bursts[j].value, b.depth)
            Child(i) == Stored(heap, SlabNode(b.slab, i),
                               prefix + i * (2 ^ GEN_SHIFT(b.depth)), b.depth + 1)
        IN  /\ \A k \in 1..DATA_NELEMS : b.before[k] # 0
            /\ \A i \in 0..(LINK_NELEMS - 1) :
                   \A n \in 1..Len(Child(i)) : IDX_FROM_VALUE(Child(i)[n], b.depth) = i
            /\ SameBag(b.before,
                       Child(0) \o Child(1) \o Child(2) \o Child(3)
                           \o Child(4) \o Child(5) \o Child(6) \o Child(7))

\* a cascade of bursts, through data nodes that take all 32 values in one child
\* down to a burst that parts them between two count nodes
C3_Witness ==
    /\ fault = "none"
    /\ Len(bursts) = TRIE_MAX_DEPTH
    /\ LET last == bursts[TRIE_MAX_DEPTH].burst
       IN  \E k \in 1..DATA_NELEMS :
               IDX_FROM_VALUE(last.before[k], last.depth)
                   # IDX_FROM_VALUE(last.before[1], last.depth)

\* ------------------------------------------------------------ steps
\* a step that is a call trie_insert_value(triep, v)
InsertStep(v) == inserted'[v] = inserted[v] + 1
\* a step that is a call of trie_print_values
PrintStep == nprints' = nprints + 1
\* a step that is a call of trie_free
FreeStep == triep # NULL /\ triep' = NULL

\* the node the descent for value ends at, and its depth
Reached(value) == Descend(heap, base_node, 0, value)

\* ------------------------------------------------------------ C4
\* C4: after one non-zero value v was inserted k times into a fresh trie and
\* nothing else, 32 <= k <= 65535, the nodes on v's path at depths 0..4 are
\* travel nodes, the bucket of the count node that v's lowest bit selects holds
\* k, and trie_print_values writes k times v and nothing else; the 32nd insert
\* bursts the nodes at depths 0, 1, 2, 3, 4, one after the other.
C4_RepeatedValue ==
    \A v \in universe \ {0} :
        (/\ inserted[v] >= DATA_NELEMS
         /\ inserted[v] <= USHRT_MAX
         /\ \A w \in AllValues \ {v} : inserted[w] = 0)
        => \A d \in {Reached(v)} :
               /\ fault = "none"
               /\ d[2] = TRIE_MAX_DEPTH
               /\ ReadU64(NodeAt(heap, d[1]), v % 2) = inserted[v]
               /\ inserted[v] = DATA_NELEMS =>
                      /\ Len(bursts) = TRIE_MAX_DEPTH
                      /\ \A j \in 1..TRIE_MAX_DEPTH : bursts[j].burst.depth = j - 1
               /\ Printed => out = [n \in 1..inserted[v] |-> v]

\* the value inserted more than 32 times, and printed
C4_Witness ==
    \E v \in universe \ {0} :
        /\ inserted[v] > DATA_NELEMS
        /\ fault = "none"
        /\ Reached(v)[2] = TRIE_MAX_DEPTH
        /\ Printed
        /\ Len(out) = inserted[v]

\* ------------------------------------------------------------ C5
\* C5: the zeros inserted are at the very start of what trie_print_values
\* writes, as many as were inserted; trie_insert_value(0) changes number_of_zeros
\* only, by 1, and no node; trie_insert_value of another value does not change
\* number_of_zeros.
C5_ZerosFirst ==
    Printed => \A i \in 1..Len(out) : (out[i] = 0) <=> (i <= inserted[0])

C5_ZeroHandling ==
    /\ [](C5_ZerosFirst)
    /\ [][/\ InsertStep(0) => /\ heap' = heap
                              /\ number_of_zeros' = number_of_zeros + 1
                              /\ fault' = "none"
          /\ \A v \in AllValues \ {0} :
                 InsertStep(v) => number_of_zeros' = number_of_zeros]_vars

\* zeros printed before other values of a trie that has burst
C5_Witness ==
    /\ Printed
    /\ inserted[0] = MaxZeros
    /\ Len(out) > inserted[0]
    /\ Slabs # {}

\* ------------------------------------------------------------ C6
\* C6: trie_print_values changes nothing of the container: not number_of_zeros,
\* no slot of a node, no bucket; a second call with no insert in between writes
\* what the first wrote.
C6_ReadOnlyPrint ==
    [][PrintStep => /\ heap' = heap
                    /\ number_of_zeros' = number_of_zeros
                    /\ base_node' = base_node
                    /\ Printed => out' = out]_vars

\* two prints in a row of a trie with zeros, data nodes and counts in buckets
C6_Witness ==
    /\ nprints = 2
    /\ number_of_zeros > 0
    /\ Len(out) > DATA_NELEMS
    /\ \E v \in universe \ {0} : Reached(v)[2] = TRIE_MAX_DEPTH
    /\ \E v \in universe \ {0} : Reached(v)[2] < TRIE_MAX_DEPTH

\* ------------------------------------------------------------ C7
\* C7: a trie_insert_value whose bucket is not at the ceiling fails no assertion:
\* the node its descent ends at is a count node or a data node that is not full,
\* and the scan down a data node stops at or before slot 0.
C7_InsertNeverFails ==
    [][\A v \in AllValues \ {0} :
           InsertStep(v) =>
               \A d \in {Reached(v)} :
               \A type \in {trie__determine_node_type(heap, d[1], d[2])} :
               LET node == NodeAt(heap, d[1])
               IN  /\ type \in {"NODE_TYPE_COUNT", "NODE_TYPE_DATA"}
                   /\ type = "NODE_TYPE_DATA" =>
                          /\ ~trie__data_node_is_full(node)
                          /\ node[1] = 0
                          /\ InsertScan(node, DATA_NELEMS - 1, v) >= 0
                          /\ fault' = "none"
                   /\ (type = "NODE_TYPE_COUNT"
                          /\ ReadU64(node, trie__get_count_node_bucket(v)) # USHRT_MAX)
                          => fault' = "none"]_vars

\* the most inserts done with none failed, into data nodes of depth 1 and deeper
\* and into count nodes
C7_Witness ==
    /\ fault = "none"
    /\ NonZeroInserted = MaxInserts
    /\ Cardinality(Slabs) > 1
\* ------------------------------------------------------------ C8
\* the count of value's bucket in the count node at nodep of heap h
BucketOf(h, nodep, value) == ReadU64(NodeAt(h, nodep), trie__get_count_node_bucket(value))

C8_BucketsBelowCeiling ==
    \A v \in universe \ {0} :
        \A d \in {Reached(v)} :
            d[2] = TRIE_MAX_DEPTH => BucketOf(heap, d[1], v) <= USHRT_MAX

\* C8: no bucket holds more than 65535; trie_insert_value into a bucket that
\* holds 65535 fails the assertion and increments nothing; into a bucket that
\* holds less, it adds 1 to the bucket; number_of_zeros has no such ceiling.
C8_CounterCeiling ==
    /\ [](C8_BucketsBelowCeiling)
    /\ [](universe = {0} => fault = "none" /\ number_of_zeros = inserted[0])
    /\ [][/\ \A v \in universe \ {0} :
                 InsertStep(v) =>
                     \A d \in {Reached(v)} :
                         d[2] = TRIE_MAX_DEPTH =>
                         \A count \in {BucketOf(heap, d[1], v)} :
                             IF count = USHRT_MAX
                             THEN fault' = "assert_bucket_ceiling" /\ heap' = heap
                             ELSE /\ fault' = "none"
                                  /\ BucketOf(heap', d[1], v) = count + 1
          /\ InsertStep(0) => fault' = "none" /\ number_of_zeros' = number_of_zeros + 1
         ]_vars

\* the insert into the bucket that holds 65535 has failed
C8_Witness ==
    \E v \in universe \ {0} :
        /\ fault = "assert_bucket_ceiling"
        /\ inserted[v] = USHRT_MAX + 1
        /\ BucketOf(heap, Reached(v)[1], v) = USHRT_MAX

\* more than 65535 zeros inserted
C8_WitnessZeros == number_of_zeros > USHRT_MAX /\ fault = "none"

\* ------------------------------------------------------------ C9
\* C9: trie_free frees every slab once, after them the root node and last the
\* handle, reads no node of a slab freed before, and sets the caller's pointer
\* to NULL.
C9_FreeOrder ==
    freed # <<>> =>
        LET n == Cardinality(Slabs)
        IN  /\ fault = "none"
            /\ triep = NULL
            /\ Len(freed) = n + 2
            /\ {freed[i] : i \in 1..n} = {BlockAddr(b) : b \in Slabs}
            /\ freed[n + 1] = base_node
            /\ freed[n + 2] = HANDLE_ADDR

\* a trie freed that has slabs at every depth
C9_Witness ==
    /\ freed # <<>>
    /\ Cardinality(Slabs) >= TRIE_MAX_DEPTH
\* ------------------------------------------------------------ C2
\* C2: two tries that took the same values, in two orders, write the same with
\* trie_print_values, whenever each of them burst.
C2_OrderInvariance ==
    (Printed /\ inserted = other.inserted) => out = other.out

\* both printed after one trie burst at a moment the other had not, with two
\* values in them
C2_Witness ==
    /\ Printed
    /\ inserted = other.inserted
    /\ other.diverged
    /\ Slabs # {}
    /\ \A v \in universe : inserted[v] > 0

\* ------------------------------------------------------------ C10
\* the six masks have no bit in common, two by two, and all 16 bits together
MasksPartition ==
    /\ \A d1, d2 \in 0..TRIE_MAX_DEPTH :
           d1 # d2 => BitAnd(GEN_MASK(d1), GEN_MASK(d2)) = 0
    /\ SumOver([d \in 0..TRIE_MAX_DEPTH |-> GEN_MASK(d)], 0..TRIE_MAX_DEPTH) = USHRT_MAX

\* the prefix step of child i in trie__print_subtrie is i << shift_amount[depth]
PrefixStepsAreShifts ==
    \A depth \in 0..(TRIE_MAX_DEPTH - 1) :
        \A i \in 0..(LINK_NELEMS - 1) :
            PrefixStep(i, depth) = i * 2 ^ GEN_SHIFT(depth)

\* C10: the indices of a 16-bit value v are in 0..7 at depths 0..4 and in 0..1
\* at depth 5; the masks are disjoint and cover 16 bits; v is the sum of its
\* indices, each shifted left by shift_amount of its depth; the prefix steps of
\* trie__print_subtrie are i << shift_amount[depth] at depths 0..4.
C10_LosslessAddressing ==
    /\ MasksPartition
    /\ PrefixStepsAreShifts
    /\ probe.idx # <<>> =>
           /\ \A d \in 0..(TRIE_MAX_DEPTH - 1) : probe.idx[d + 1] \in 0..(LINK_NELEMS - 1)
           /\ probe.idx[TRIE_MAX_DEPTH + 1] \in 0..1
           /\ probe.v = SumOver([d \in 0..TRIE_MAX_DEPTH |->
                                    probe.idx[d + 1] * 2 ^ GEN_SHIFT(d)],
                                0..TRIE_MAX_DEPTH)

\* the indices of 0xA5C3: 5, 1, 3, 4, 1, 1
C10_Witness ==
    /\ probe.v = 42435
    /\ probe.idx = <<5, 1, 3, 4, 1, 1>>
\* ------------------------------------------------------------ C11
\* the node whose burst was the latest to start in the insert of v that made
\* the bursts bs: the node of the descent in h, or the child that took all 32
\* values of the burst before
BurstingNode(h, v, bs) ==
    IF bs = <<>> THEN Descend(h, base_node, 0, v)[1]
    ELSE LET last == bs[Len(bs)].burst
         IN  BlockAddr(last.slab)
               + IDX_FROM_VALUE(last.before[DATA_NELEMS], last.depth) * NODE_BYTES

\* C11: when aligned_alloc returns NULL for the root node or for the slab of a
\* burst, the process aborts there: no block is added, no later step of insert,
\* burst, print or free changes anything, and the node whose slab was not
\* allocated holds its 32 values still, no link, with no child written.
C11_AllocFailureFatal ==
    /\ [](Len(heap) <= memory)
    /\ [](memory = 0 => heap = <<>> /\ fault = "assert_node_allocation" /\ triep = NULL)
    /\ [][fault # "none" => vars' = vars]_vars
    /\ [][\A v \in universe \ {0} :
              (InsertStep(v) /\ fault' = "assert_travel_node_allocation") =>
                  /\ Len(heap) + Len(bursts') = memory
                  /\ Len(heap') = memory
                  /\ \A k \in 1..DATA_NELEMS :
                         NodeAt(heap', BurstingNode(heap, v, bursts'))[k] \in universe \ {0}
         ]_vars

\* the third slab of a cascade of bursts was not allocated
C11_Witness ==
    /\ fault = "assert_travel_node_allocation"
    /\ Len(bursts) = 2
    /\ Len(heap) = memory
\* ------------------------------------------------------------ C12
\* the 4 words of link[i] of node are those of the tagged address of node i of
\* the slab at block b
LinksTo(node, i, b) ==
    /\ node[WORDS_PER_U64 * i + 1] = BlockAddr(b) + i * NODE_BYTES + 1
    /\ \A w \in 2..WORDS_PER_U64 : node[WORDS_PER_U64 * i + w] = 0

\* the subtrie at nodep, a node of depth depth, has the shape of C12
RECURSIVE WellShaped(_, _, _)
WellShaped(h, nodep, depth) ==
    IF depth = TRIE_MAX_DEPTH THEN TRUE
    ELSE IF NodeAt(h, nodep)[1] = 0 THEN TRUE
    ELSE \E b \in 2..Len(h) :
             \A i \in 0..(LINK_NELEMS - 1) :
                 /\ LinksTo(NodeAt(h, nodep), i, b)
                 /\ WellShaped(h, BlockAddr(b) + i * NODE_BYTES, depth + 1)

\* the nodes of the trie at depth depth, from the node nodep of depth d down
RECURSIVE NodesAt(_, _, _, _)
NodesAt(h, nodep, d, depth) ==
    IF d = depth THEN {nodep}
    ELSE IF d = TRIE_MAX_DEPTH \/ NodeAt(h, nodep)[1] = 0 THEN {}
    ELSE UNION {NodesAt(h, LinkTarget(h, nodep, i), d + 1, depth) :
                   i \in 0..(LINK_NELEMS - 1)}

\* C12: after trie_init and after every trie_insert_value that returned, a node
\* at depth < 5 is a data node with data[0] = 0 or a travel node whose 8 links
\* are the tagged addresses of the 8 nodes of one slab, in order, and so not
\* NULL; the nodes at depth 5 are count nodes, in a slab, and end the paths.
C12_ShapeInvariant ==
    (triep # NULL /\ fault = "none") =>
        /\ WellShaped(heap, base_node, 0)
        /\ \A n \in NodesAt(heap, base_node, 0, TRIE_MAX_DEPTH) :
               /\ BlockOf(n) \in Slabs
               /\ trie__determine_node_type(heap, n, TRIE_MAX_DEPTH) = "NODE_TYPE_COUNT"

\* travel nodes at depths 0..4 with count nodes below and data nodes beside them
C12_Witness ==
    /\ fault = "none"
    /\ triep # NULL
    /\ Cardinality(Slabs) = TRIE_MAX_DEPTH
    /\ NodesAt(heap, base_node, 0, TRIE_MAX_DEPTH) # {}
    /\ \E v \in universe \ {0} : inserted[v] > 0 /\ Reached(v)[2] < TRIE_MAX_DEPTH
\* ------------------------------------------------------------ C13
\* the data nodes of the trie
DataNodes ==
    {n \in UNION {NodesAt(heap, base_node, 0, d) : d \in 0..(TRIE_MAX_DEPTH - 1)} :
        NodeAt(heap, n)[1] = 0}

\* the slots of a node, as C indices, that hold a value
Occupied(node) == {i \in 0..(DATA_NELEMS - 1) : node[i + 1] # 0}

Reverse(s) == [i \in 1..Len(s) |-> s[Len(s) + 1 - i]]

\* what is read through nodep, data nodes from data[31] down to data[0], and
\* the children of travel nodes from link[0] to link[7]
RECURSIVE Emitted(_, _, _, _)
Emitted(h, nodep, prefix, depth) ==
    LET node == NodeAt(h, nodep)
        Sub(i) == Emitted(h, LinkTarget(h, nodep, i),
                          prefix + i * (2 ^ GEN_SHIFT(depth)), depth + 1)
    IN  IF depth = TRIE_MAX_DEPTH THEN Stored(h, nodep, prefix, depth)
        ELSE IF node[1] = 0 THEN Reverse(Stored(h, nodep, prefix, depth))
        ELSE Sub(0) \o Sub(1) \o Sub(2) \o Sub(3) \o Sub(4) \o Sub(5) \o Sub(6) \o Sub(7)

Zeros(n) == [i \in 1..n |-> 0]

\* the statement of C13 as it came: the occupied slots ascend with the slot
\* index, and a print writes each data node from low index to high index
C13_AscendingBySlot ==
    (triep # NULL /\ fault = "none") =>
        /\ \A n \in DataNodes :
               \A node \in {NodeAt(heap, n)} :
                   \A i, j \in Occupied(node) : i < j => node[i + 1] <= node[j + 1]
        /\ Printed => out = Zeros(number_of_zeros) \o Stored(heap, base_node, 0, 0)

C13_DescendingBySlot ==
    (triep # NULL /\ fault = "none") =>
        /\ \A n \in DataNodes :
               \A node \in {NodeAt(heap, n)} :
                   \A i, j \in Occupied(node) : i < j => node[i + 1] >= node[j + 1]
        /\ Printed => out = Zeros(number_of_zeros) \o Emitted(heap, base_node, 0, 0)

\* C13 (amended): the occupied slots of a data node descend with the slot index
\* (data[i] >= data[j] for occupied i < j, the least value at data[31]); an
\* insert puts the value at the first slot, from data[31] down, that is empty
\* or holds a value not less than it; a print writes each data node from
\* data[31] down, high index to low index.
C13_SortDirection ==
    /\ [](C13_DescendingBySlot)
    /\ [][\A v \in universe \ {0} :
              (InsertStep(v) /\ bursts' = <<>>) =>
                  \A d \in {Reached(v)} :
                      d[2] < TRIE_MAX_DEPTH =>
                          \E k \in 1..DATA_NELEMS :
                              /\ NodeAt(heap', d[1])[k] = v
                              /\ \A j \in (k + 1)..DATA_NELEMS :
                                     /\ NodeAt(heap, d[1])[j] # 0
                                     /\ NodeAt(heap, d[1])[j] < v
                              /\ \/ NodeAt(heap, d[1])[k] = 0
                                 \/ NodeAt(heap, d[1])[k] >= v
         ]_vars

\* a data node with two values in it, printed, in a trie with zeros
C13_Witness ==
    /\ Printed
    /\ fault = "none"
    /\ number_of_zeros > 0
    /\ \E n \in DataNodes :
           /\ NodeAt(heap, n)[DATA_NELEMS] # 0
           /\ NodeAt(heap, n)[DATA_NELEMS - 1] > NodeAt(heap, n)[DATA_NELEMS]
\* ------------------------------------------------------------ C14
C14_EmptyPrefix ==
    (triep # NULL /\ fault = "none") =>
        \A n \in DataNodes :
            \A node \in {NodeAt(heap, n)} :
                \A i \in Occupied(node) :
                    \A j \in (i + 1)..(DATA_NELEMS - 1) : node[j + 1] # 0

\* the data node an insert step wrote its value to, as the insert left it
\* before any burst: the node at nodep after the step, or what the first burst
\* of the step read
PlacedNode(nodep) ==
    IF bursts' = <<>> THEN NodeAt(heap', nodep) ELSE bursts'[1].burst.before

\* C14: in a data node the slots that hold 0 are data[0] up to some slot and
\* the slots above hold values, up to data[31]; an insert into a data node, whose
\* data[0] is 0 before, leaves it with one more of the new value, one empty
\* slot less and as many of every other value as before.
C14_RightJustified ==
    /\ [](C14_EmptyPrefix)
    /\ [][\A v \in universe \ {0} :
              InsertStep(v) =>
                  \A d \in {Reached(v)} :
                      d[2] < TRIE_MAX_DEPTH =>
                          /\ NodeAt(heap, d[1])[1] = 0
                          /\ \A w \in universe \cup {0} :
                                 Occurrences(PlacedNode(d[1]), w)
                                     = Occurrences(NodeAt(heap, d[1]), w)
                                         + (IF w = v THEN 1 ELSE IF w = 0 THEN -1 ELSE 0)
         ]_vars

\* a data node of 31 values, two of them different
C14_Witness ==
    /\ fault = "none"
    /\ triep # NULL
    /\ \E n \in DataNodes :
           /\ NodeAt(heap, n)[1] = 0
           /\ NodeAt(heap, n)[2] # 0
           /\ NodeAt(heap, n)[2] # NodeAt(heap, n)[DATA_NELEMS]
\* ------------------------------------------------------------ C15
\* all 32 values a burst read have the same index at its depth
OneChild(b) ==
    \A k \in 1..DATA_NELEMS :
        IDX_FROM_VALUE(b.before[k], b.depth) = IDX_FROM_VALUE(b.before[DATA_NELEMS], b.depth)

\* the statement of C15 as it came: the burst a burst cascades into has the
\* depth argument depth + 2
C15_CascadeDepthPlusTwo ==
    \A j \in 1..(Len(bursts) - 1) : bursts[j + 1].burst.depth = bursts[j].burst.depth + 2

\* C15 (amended): a burst at depth d < 4 whose 32 values all go to one child,
\* the last of them into data[0] of the child, bursts that child, and no other,
\* with the depth argument d + 1, before it returns; a burst at depth 4 and a
\* burst that parts its values burst no child.
C15_CascadeDepth ==
    fault = "none" =>
        \A j \in 1..Len(bursts) :
            LET b == bursts[j].burst
            IN  /\ (j < Len(bursts)) <=> (OneChild(b) /\ b.depth < TRIE_MAX_DEPTH - 1)
                /\ j < Len(bursts) =>
                       /\ bursts[j + 1].burst.depth = b.depth + 1
                       /\ bursts[j + 1].burst.nodep
                              = SlabNode(b.slab, IDX_FROM_VALUE(b.before[DATA_NELEMS], b.depth))
                       /\ bursts[j + 1].burst.before[1] # 0
                       /\ SameBag(bursts[j + 1].burst.before, b.before)

\* an insert whose burst at depth 0 cascaded to depth 3 and stopped there, the
\* values parting at depth 3
C15_Witness ==
    /\ fault = "none"
    /\ Len(bursts) = TRIE_MAX_DEPTH - 1
    /\ ~OneChild(bursts[Len(bursts)].burst)
\* ------------------------------------------------------------ C16
C16_Bounds ==
    /\ call.links <= TRIE_MAX_DEPTH
    /\ call.nbursts <= TRIE_MAX_DEPTH
    /\ call.depth <= TRIE_MAX_DEPTH
    /\ call.pc = "burst" => call.depth = call.links + call.nbursts
    /\ call.pc = "burst" => call.depth <= TRIE_MAX_DEPTH - 1
    /\ \A j \in 1..Len(bursts) : bursts[j].burst.depth = bursts[1].burst.depth + j - 1
    /\ call.pc = "idle" => C15_CascadeDepth

\* a call that returned left what trie_insert_value as a whole leaves
C16_SameAsWhole ==
    (call.pc = "idle" /\ call.value # 0) =>
        \E r \in {trie_insert_value([heap |-> call.start, base_node |-> base_node,
                                      number_of_zeros |-> number_of_zeros], call.value)} :
            /\ heap = r.heap
            /\ fault = r.fault
            /\ bursts = r.bursts

\* C16: every call of trie_insert_value returns; its descent follows at most 5
\* links and it makes at most 5 bursts, one after the other at depths that go
\* up by one and end at 4 at most: a burst calls itself only when all 32 values
\* went to one child, on that child, and not at depth 4.
C16_InsertTerminates ==
    /\ [](C16_Bounds)
    /\ [](C16_SameAsWhole)
    /\ (call.pc # "idle") ~> (call.pc = "idle")

\* a call that returned after 5 bursts
C16_Witness ==
    /\ call.pc = "idle"
    /\ call.nbursts = TRIE_MAX_DEPTH
    /\ fault = "none"

\* a call that followed 5 links
C16_WitnessDescent ==
    /\ call.pc = "idle"
    /\ call.links = TRIE_MAX_DEPTH
    /\ fault = "none"
\* ------------------------------------------------------------ C17
\* the travel nodes of the trie in the heap h
TravelNodes(h) ==
    UNION {{n \in NodesAt(h, base_node, 0, d) :
               trie__determine_node_type(h, n, d) = "NODE_TYPE_TRAVEL"} :
           d \in 0..(TRIE_MAX_DEPTH - 1)}

\* the links of the travel nodes T: <<node, index, node linked to>>
LinksOf(h, T) == {<<n, i, LinkTarget(h, n, i)>> : n \in T, i \in 0..(LINK_NELEMS - 1)}

\* the nodes of the slabs of the heap h
SlabNodes(h) == {SlabNode(b, i) : b \in 2..Len(h), i \in 0..(LINK_NELEMS - 1)}

\* every node of a slab is the target of one link of one travel node, the root
\* of none, no node is at two depths, and there are as many slabs as travel nodes
C17_Tree ==
    (triep # NULL /\ fault = "none") =>
        \A T \in {TravelNodes(heap)} :
            \A L \in {LinksOf(heap, T)} :
                /\ Cardinality({l[3] : l \in L}) = Cardinality(L)
                /\ {l[3] : l \in L} = SlabNodes(heap)
                /\ base_node \notin {l[3] : l \in L}
                /\ \A d1, d2 \in 0..TRIE_MAX_DEPTH :
                       d1 < d2 => NodesAt(heap, base_node, 0, d1)
                                      \cap NodesAt(heap, base_node, 0, d2) = {}
                /\ Cardinality(Slabs) = Cardinality(T)

\* a travel node stays one, with the links it has, while the trie lives
C17_LinksKept ==
    (triep # NULL /\ triep' # NULL /\ fault' = "none") =>
        \A T \in {TravelNodes(heap)} :
            /\ T \subseteq TravelNodes(heap')
            /\ \A n \in T : NodeAt(heap', n) = NodeAt(heap, n)

\* C17: a node that has become a travel node stays a travel node with the same
\* 8 links in every later state of the trie; every node but the root is the
\* target of exactly one link of exactly one travel node, the root of none,
\* and no node lies on two levels; the slabs allocated are as many as the
\* travel nodes.
C17_TreeStable == [](C17_Tree) /\ [][C17_LinksKept]_vars

\* five travel nodes, one below the other, and inserts after the last burst
C17_Witness ==
    /\ triep # NULL
    /\ fault = "none"
    /\ Cardinality(TravelNodes(heap)) = TRIE_MAX_DEPTH
    /\ bursts = <<>>
    /\ NonZeroInserted > DATA_NELEMS
\* ------------------------------------------------------------ C18
\* the count nodes below nodep, each with the value trie__print_subtrie has
\* accumulated when it reaches the node: <<node, value>>
RECURSIVE CountNodes(_, _, _, _)
CountNodes(h, nodep, value, depth) ==
    IF depth = TRIE_MAX_DEPTH THEN {<<nodep, value>>}
    ELSE IF NodeAt(h, nodep)[1] = 0 THEN {}
    ELSE UNION {CountNodes(h, LinkTarget(h, nodep, i),
                           (value + PrefixStep(i, depth)) % WORD_MOD, depth + 1) :
                   i \in 0..(LINK_NELEMS - 1)}

\* the words of count[2..7] of a node
UpperCounters == (2 * WORDS_PER_U64 + 1)..DATA_NELEMS

\* C18: count[2] .. count[7] of every count node are 0; the bucket that an
\* insert or a burst at depth 4 increments is count[0] or count[1], and the two
\* buckets that trie__print_subtrie reads in a count node are count[0] and
\* count[1].
C18_TwoCounters ==
    (triep # NULL /\ fault = "none") =>
        /\ \A v \in universe : trie__get_count_node_bucket(v) \in {0, 1}
        /\ \A c \in CountNodes(heap, base_node, 0, 0) :
               /\ \A k \in UpperCounters : NodeAt(heap, c[1])[k] = 0
               /\ trie__get_count_node_bucket(c[2]) = 0
               /\ trie__get_count_node_bucket((c[2] + 1) % WORD_MOD) = 1

\* a count node with both buckets counted, one of them by an insert after the
\* burst, and printed
C18_Witness ==
    /\ triep # NULL
    /\ fault = "none"
    /\ Printed
    /\ NonZeroInserted > DATA_NELEMS
    /\ \E c \in CountNodes(heap, base_node, 0, 0) :
           /\ NodeAt(heap, c[1])[1] > 0
           /\ NodeAt(heap, c[1])[WORDS_PER_U64 + 1] > 0
\* ------------------------------------------------------------ C19
\* the nodes below the node nodep of depth d
Descendants(h, nodep, d) ==
    UNION {NodesAt(h, nodep, d, depth) : depth \in (d + 1)..TRIE_MAX_DEPTH}

\* the nodes of the block b of the heap h
NodesOf(h, b) == {SlabNode(b, i - 1) : i \in 1..Len(h[b])}

\* what trie_insert_value(value) leaves alone, the descent for value ending at
\* the node d[1] of depth d[2]
FrameOf(value, d) ==
    /\ trie__determine_node_type(heap, d[1], d[2]) # "NODE_TYPE_TRAVEL"
    /\ base_node' = base_node
    /\ number_of_zeros' = number_of_zeros
    /\ Len(heap') >= Len(heap)
    /\ \A b \in 1..Len(heap) :
           /\ Len(heap'[b]) = Len(heap[b])
           /\ \A n \in NodesOf(heap, b) :
                  n # d[1] => NodeAt(heap', n) = NodeAt(heap, n)
    /\ NodeAt(heap', d[1]) # NodeAt(heap, d[1])
    /\ Len(heap') = Len(heap) + Len(bursts')
    /\ bursts' # <<>> => bursts'[1].burst.nodep = d[1]
    /\ \A j \in 1..Len(bursts') :
           LET b == bursts'[j].burst
           IN  /\ b.slab = Len(heap) + j
               /\ NodeAt(heap', b.nodep) = TravelNodeOf(b.slab)
               /\ j > 1 => BlockOf(b.nodep) = b.slab - 1
    /\ \A b \in (Len(heap) + 1)..Len(heap') :
           NodesOf(heap', b) \subseteq Descendants(heap', d[1], d[2])

\* C19: a call trie_insert_value(v) with v not 0 that returns changes one node
\* of the heap it found, the data or count node its descent for v ends at; the
\* travel nodes on the path and the nodes off the path, the root pointer and
\* the zero counter are as they were. The blocks it adds to the heap, when the
\* node bursts, hold descendants of that node only.
C19_InsertFrame ==
    [][\A v \in universe \ {0} :
           (InsertStep(v) /\ fault' = "none") => \A d \in {Reached(v)} : FrameOf(v, d)]_vars

\* an insert that burst a node below the root, beside a node that holds values
C19_Witness ==
    /\ fault = "none"
    /\ bursts # <<>>
    /\ bursts[1].burst.depth > 0
    /\ \E n \in NodesAt(heap, base_node, 0, 1) :
           /\ n # bursts[1].burst.nodep
           /\ NodeAt(heap, n)[DATA_NELEMS] # 0
\* ------------------------------------------------------------ C20
\* the stores of the burst b into its child c, in the order they were made
WritesTo(b, c) == SelectSeq(b.writes, LAMBDA w : w.child = c)

\* the child c of the burst b after the first n stores into it, every other
\* slot as bzero left it
ChildAfter(b, c, n) ==
    [k \in 1..DATA_NELEMS |->
        IF \E m \in 1..n : WritesTo(b, c)[m].slot = k - 1
        THEN WritesTo(b, c)[CHOOSE m \in 1..n : WritesTo(b, c)[m].slot = k - 1].elem
        ELSE 0]

\* C20: every store of trie__burst_data_node into a new data node lands in a
\* slot that holds 0; the stores into one child go to data[31], data[30], ...
\* one slot after the other with values that do not go down, so no value
\* placed in the child is overwritten and the child is in the order of a data
\* node after every store; the elements are taken from data[31] of the source
\* down to data[0], and the child holds what was stored and nothing is moved.
C20_BurstWritesEmptySlots ==
    \A j \in 1..Len(bursts) :
        \A b \in {bursts[j].burst} :
            /\ b.depth < TRIE_MAX_DEPTH - 1 => Len(b.writes) = DATA_NELEMS
            /\ b.depth = TRIE_MAX_DEPTH - 1 => b.writes = <<>>
            /\ \A n \in 1..Len(b.writes) :
                   /\ b.writes[n].old = 0
                   /\ b.writes[n].elem = b.before[DATA_NELEMS + 1 - n]
                   /\ b.writes[n].child = IDX_FROM_VALUE(b.writes[n].elem, b.depth)
            /\ \A c \in 0..(LINK_NELEMS - 1) :
                   \A W \in {WritesTo(b, c)} :
                       /\ \A n \in 1..Len(W) : W[n].slot = DATA_NELEMS - n
                       /\ \A n \in 2..Len(W) : W[n - 1].elem <= W[n].elem
                       /\ (fault = "none" /\ j = Len(bursts)
                              /\ b.depth < TRIE_MAX_DEPTH - 1) =>
                              NodeAt(heap, SlabNode(b.slab, c)) = ChildAfter(b, c, Len(W))

\* a burst that stored several values, two of them equal, in each of two
\* children
C20_Witness ==
    /\ fault = "none"
    /\ bursts # <<>>
    /\ \E c1, c2 \in 0..(LINK_NELEMS - 1) :
           /\ c1 # c2
           /\ Len(WritesTo(bursts[1].burst, c1)) > 2
           /\ Len(WritesTo(bursts[1].burst, c2)) > 2
           /\ \E n \in 2..Len(WritesTo(bursts[1].burst, c1)) :
                  WritesTo(bursts[1].burst, c1)[n].elem
                      = WritesTo(bursts[1].burst, c1)[n - 1].elem
\* ------------------------------------------------------------ C21
\* the data and count nodes below nodep, each with the link indices that lead
\* to it from the root and the value trie__print_subtrie has accumulated when
\* it reaches it: <<node, indices, value>>
RECURSIVE Leaves(_, _, _, _)
Leaves(h, nodep, path, value) ==
    IF Len(path) = TRIE_MAX_DEPTH \/ NodeAt(h, nodep)[1] = 0
    THEN {<<nodep, path, value>>}
    ELSE UNION {Leaves(h, LinkTarget(h, nodep, i), Append(path, i),
                       (value + PrefixStep(i, Len(path))) % WORD_MOD) :
                   i \in 0..(LINK_NELEMS - 1)}

\* the value of bucket b of the count node the indices of path lead to
ValueOf(path, b) ==
    SumOver([k \in 1..Len(path) |-> path[k] * (2 ^ GEN_SHIFT(k - 1))], 1..Len(path)) + b

\* the copies of v that the leaf l holds
CopiesIn(h, l, v) ==
    IF Len(l[2]) = TRIE_MAX_DEPTH
    THEN IF v \in {ValueOf(l[2], 0), ValueOf(l[2], 1)}
         THEN ReadU64(NodeAt(h, l[1]), v - ValueOf(l[2], 0))
         ELSE 0
    ELSE Occurrences(NodeAt(h, l[1]), v)

\* C21: every value in a data node reached from the root through the links
\* i0 .. i(d-1) has the index ik at every depth k < d; bucket b of a count node
\* reached through i0 .. i4 holds the number of inserts of the one value with
\* these indices and lowest bit b, the value trie__print_subtrie prints for the
\* bucket (none for the value 0, whose inserts number_of_zeros counts and no
\* node); all the copies of a value other than 0 are in one node.
C21_PathPrefix ==
    (triep # NULL /\ fault = "none") =>
        \A L \in {Leaves(heap, base_node, <<>>, 0)} :
            /\ \A l \in L :
                   IF Len(l[2]) = TRIE_MAX_DEPTH
                   THEN /\ l[3] = ValueOf(l[2], 0)
                        /\ \A b \in {0, 1} :
                               \A v \in {ValueOf(l[2], b)} :
                                   /\ \A k \in 0..(TRIE_MAX_DEPTH - 1) :
                                          IDX_FROM_VALUE(v, k) = l[2][k + 1]
                                   /\ trie__get_count_node_bucket(v) = b
                                   /\ ReadU64(NodeAt(heap, l[1]), b)
                                          = IF v # 0 /\ v \in AllValues THEN inserted[v]
                                            ELSE 0
                   ELSE \A j \in Occupied(NodeAt(heap, l[1])) :
                            \A k \in 0..(Len(l[2]) - 1) :
                                IDX_FROM_VALUE(NodeAt(heap, l[1])[j + 1], k) = l[2][k + 1]
            /\ \A v \in universe \ {0} :
                   inserted[v] > 0 =>
                       \E l \in L :
                           /\ CopiesIn(heap, l, v) = inserted[v]
                           /\ \A m \in L \ {l} : CopiesIn(heap, m, v) = 0

\* a count node that counts a value beside a data node below the root that
\* holds another
C21_Witness ==
    /\ triep # NULL
    /\ fault = "none"
    /\ \E l, m \in Leaves(heap, base_node, <<>>, 0) :
           /\ Len(l[2]) = TRIE_MAX_DEPTH
           /\ NodeAt(heap, l[1])[1] + NodeAt(heap, l[1])[WORDS_PER_U64 + 1] >= DATA_NELEMS
           /\ Len(m[2]) \in 1..(TRIE_MAX_DEPTH - 1)
           /\ NodeAt(heap, m[1])[DATA_NELEMS] # 0

====
